---- MODULE Spec2Model ----
(***************************************************************************)
(* The weather collector daemon of app/main.py: every cycle fetches one    *)
(* report per configured city (wttr_manager.Wttr.fetch_data, in a thread   *)
(* pool), turns each report into a point (_build_point), and writes each   *)
(* point to InfluxDB (_write_point), remembering per city the timestamp    *)
(* last recorded (last_seen_timestamps).                                   *)
(***************************************************************************)
EXTENDS Integers, Sequences, FiniteSets, TLC

(***************************************************************************)
(* Python values.  Every value carries its type in the field t, so that an *)
(* operation applied to a value of the wrong type raises as Python does.   *)
(***************************************************************************)
None == [t |-> "None"]
JStr(s) == [t |-> "str", s |-> s]
JNum(n) == [t |-> "num", n |-> n]
JList(items) == [t |-> "list", items |-> items]
JDict(kv) == [t |-> "dict", kv |-> kv]
\* A JSON integer beyond the range of a float, such as 10**400.
JBig == [t |-> "bignum"]
\* An exception in flight, in the place of the value an expression would have had.
Raise(e) == [t |-> "raise", exc |-> e]
IsRaise(x) == x.t = "raise"
\* The dictionary {} .
EmptyKV == [k \in {} |-> None]

\* bool(x): None, "", 0, [] and {} are false.
Truthy(x) ==
  CASE x.t = "None" -> FALSE
    [] x.t = "str" -> x.s # ""
    [] x.t = "num" -> x.n # 0
    [] x.t = "list" -> Len(x.items) > 0
    [] x.t = "dict" -> DOMAIN x.kv # {}
    [] OTHER -> TRUE

\* d.get(k, default): only a dict has .get .
DictGet(d, k, default) ==
  IF d.t = "dict"
  THEN IF k \in DOMAIN d.kv THEN d.kv[k] ELSE default
  ELSE Raise("AttributeError")

\* x[0]
Index0(x) ==
  CASE x.t = "list" -> IF Len(x.items) > 0 THEN x.items[1] ELSE Raise("IndexError")
    [] x.t = "dict" -> Raise("KeyError")
    [] x.t = "str" -> IF x.s = "" THEN Raise("IndexError") ELSE JStr("?")
    [] OTHER -> Raise("TypeError")

\* x == "" for a value x of any type.
EqEmptyStr(x) == x.t = "str" /\ x.s = ""

\* x.lower(): only a str has .lower ; the letters are not modelled.
Lower(x) == IF x.t = "str" THEN x ELSE Raise("AttributeError")

(***************************************************************************)
(* settings.py                                                             *)
(***************************************************************************)
\* How many of the configured cities the model monitors.
NumCities == 2

\* The longest that a cycle's fetch phase takes, in whole seconds.
MaxFetchSeconds == 1

\* time.sleep(30)
SLEEP_SECONDS == 30

CITY_DICTS ==
  << [city |-> "Savannah", country |-> "USA", tz |-> "America/New_York"],
     [city |-> "Los Angeles", country |-> "USA", tz |-> "America/Los_Angeles"],
     [city |-> "Los Gatos", country |-> "USA", tz |-> "America/Los_Angeles"],
     [city |-> "Olympia", country |-> "USA", tz |-> "America/Los_Angeles"],
     [city |-> "Mulege", country |-> "MEX", tz |-> "America/Mazatlan"],
     [city |-> "Philadelphia", country |-> "USA", tz |-> "America/New_York"],
     [city |-> "Boulder", country |-> "USA", tz |-> "America/Denver"],
     [city |-> "San Diego", country |-> "USA", tz |-> "America/Los_Angeles"],
     [city |-> "San Francisco", country |-> "USA", tz |-> "America/Los_Angeles"],
     [city |-> "Tamarindo", country |-> "CRI", tz |-> "America/Costa_Rica"] >>

\* The positions in CITY_DICTS of the monitored cities.
Cities == 1..NumCities
CityNames == {CITY_DICTS[c].city : c \in Cities}

\* field name -> wttr.in JSON key, in the dict's order.
MEASUREMENTS ==
  << <<"humidity", "humidity">>,
     <<"pressure", "pressureInches">>,
     <<"temp_celsius", "temp_C">>,
     <<"temp_fahrenheit", "temp_F">>,
     <<"temp_kelvin", "temp_K">>,
     <<"cloudcover", "cloudcover">>,
     <<"latitude", "latitude">>,
     <<"longitude", "longitude">> >>

KELVIN_OFFSET == 273

(***************************************************************************)
(* Wttr.fetch_data                                                         *)
(***************************************************************************)
\* The size of a 404 body above which fetch_data looks into it.
MISMATCH_BODY_SIZE == 1000

\* response.json(): the parsed body, or ValueError for a body that is no JSON.
response_json(response) ==
  IF response.body.t = "invalid" THEN Raise("ValueError") ELSE response.body

\* The statements of the HTTP 200 branch, before the inner except clause.
fetch_data_200(response) ==
  LET data == response_json(response) IN
  IF IsRaise(data) THEN data ELSE
  LET areas == DictGet(data, "nearest_area", JList(<<JDict(EmptyKV)>>)) IN
  IF IsRaise(areas) THEN areas ELSE
  LET nearest_area == Index0(areas) IN
  IF IsRaise(nearest_area) THEN nearest_area ELSE
  IF ~Truthy(nearest_area) THEN None ELSE
  LET names == DictGet(nearest_area, "areaName", JList(<<JDict(EmptyKV)>>)) IN
  IF IsRaise(names) THEN names ELSE
  LET name0 == Index0(names) IN
  IF IsRaise(name0) THEN name0 ELSE
  LET value == DictGet(name0, "value", None) IN
  IF IsRaise(value) THEN value ELSE
  IF EqEmptyStr(value) THEN None ELSE
  LET current_condition == DictGet(data, "current_condition", JList(<<>>)) IN
  IF IsRaise(current_condition) THEN current_condition ELSE
  IF ~Truthy(current_condition) THEN None ELSE
  data

\* The statements of the HTTP 404 branch for a body over the size threshold,
\* before its except clause: they only choose the log line.
fetch_data_404_look(response, city) ==
  LET data == response_json(response) IN
  IF IsRaise(data) THEN data ELSE
  LET areas == DictGet(data, "nearest_area", JList(<<JDict(EmptyKV)>>)) IN
  IF IsRaise(areas) THEN areas ELSE
  LET nearest_area == Index0(areas) IN
  IF IsRaise(nearest_area) THEN nearest_area ELSE
  LET names == DictGet(nearest_area, "areaName", JList(<<JDict(EmptyKV)>>)) IN
  IF IsRaise(names) THEN names ELSE
  LET name0 == Index0(names) IN
  IF IsRaise(name0) THEN name0 ELSE
  LET returned_city == DictGet(name0, "value", JStr("")) IN
  IF IsRaise(returned_city) THEN returned_city ELSE
  IF ~Truthy(returned_city) THEN None ELSE
  LET lowered == Lower(returned_city) IN
  IF IsRaise(lowered) THEN lowered ELSE None

\* except (KeyError, IndexError, ValueError): return None
CaughtInner(r) ==
  IF IsRaise(r) /\ r.exc \in {"KeyError", "IndexError", "ValueError"} THEN None ELSE r

\* Wttr.fetch_data(location_info) for the response requests.get produced: the
\* data, None, or the exception that leaves the method.
fetch_data(response, location_info) ==
  IF response.kind # "http"
  THEN None  \* Timeout, ConnectionError, RequestException
  ELSE IF response.status_code = 200
  THEN CaughtInner(fetch_data_200(response))
  ELSE IF response.status_code = 404
  THEN IF response.content_len > MISMATCH_BODY_SIZE
       THEN LET r == CaughtInner(fetch_data_404_look(response, location_info.city))
            IN  IF IsRaise(r) THEN r ELSE None
       ELSE None
  ELSE None

(***************************************************************************)
(* Wttr.parse_observation_time                                             *)
(***************************************************************************)
\* A datetime object: a civil date and time, naive (tz = "naive") or in a zone.
DateTime(y, mo, d, h, mi, tz) ==
  [t |-> "datetime", y |-> y, mo |-> mo, d |-> d, h |-> h, mi |-> mi, tz |-> tz]

\* The digit groups and the AM/PM word that the format "%Y-%m-%d %I:%M %p"
\* finds in a text, for the texts the model lets wttr.in send; <<>> for a text
\* the format does not match.
FormatGroups(s) ==
  CASE s = "2025-04-21 11:55 AM" -> <<2025, 4, 21, 11, 55, "AM">>
    [] s = "2025-10-28 08:28 AM" -> <<2025, 10, 28, 8, 28, "AM">>
    [] s = "2025-10-28 11:30 PM" -> <<2025, 10, 28, 11, 30, "PM">>
    [] s = "2025-03-09 02:30 AM" -> <<2025, 3, 9, 2, 30, "AM">>
    [] s = "2025-11-02 01:30 AM" -> <<2025, 11, 2, 1, 30, "AM">>
    [] s = "2025-02-30 10:00 AM" -> <<2025, 2, 30, 10, 0, "AM">>
    [] s = "2025-10-28 13:05 PM" -> <<2025, 10, 28, 13, 5, "PM">>
    [] s = "2025-10-28 12:05 AM" -> <<2025, 10, 28, 12, 5, "AM">>
    [] s = "2025-12-31 11:30 PM" -> <<2025, 12, 31, 11, 30, "PM">>
    [] s = "2025-03-09 02:00 AM" -> <<2025, 3, 9, 2, 0, "AM">>
    [] s = "2025-03-09 03:00 AM" -> <<2025, 3, 9, 3, 0, "AM">>
    [] s = "2025-11-02 01:59 AM" -> <<2025, 11, 2, 1, 59, "AM">>
    [] s = "2025-11-02 02:00 AM" -> <<2025, 11, 2, 2, 0, "AM">>
    [] OTHER -> <<>>

IsLeap(y) == (y % 4 = 0 /\ y % 100 # 0) \/ y % 400 = 0

DaysInMonth(y, mo) ==
  IF mo = 2 THEN (IF IsLeap(y) THEN 29 ELSE 28)
  ELSE IF mo \in {4, 6, 9, 11} THEN 30 ELSE 31

\* datetime.strptime(text, "%Y-%m-%d %I:%M %p"): TypeError for a text that is
\* no str, ValueError for one that does not match or names no real date.
strptime(text) ==
  IF text.t # "str" THEN Raise("TypeError") ELSE
  LET g == FormatGroups(text.s) IN
  IF g = <<>> THEN Raise("ValueError") ELSE
  IF ~(/\ g[2] \in 1..12
       /\ g[3] \in 1..DaysInMonth(g[1], g[2])
       /\ g[4] \in 1..12
       /\ g[5] \in 0..59)
  THEN Raise("ValueError")
  ELSE DateTime(g[1], g[2], g[3], (g[4] % 12) + (IF g[6] = "PM" THEN 12 ELSE 0),
                g[5], "naive")

\* The zones of the tz database the model knows: standard offset from UTC in
\* minutes, and whether the zone follows the United States' daylight saving.
ZoneRules ==
  [ z \in {"UTC", "America/New_York", "America/Los_Angeles", "America/Denver",
           "America/Mazatlan", "America/Costa_Rica"} |->
    CASE z = "UTC" -> [std |-> 0, dst |-> FALSE]
      [] z = "America/New_York" -> [std |-> -300, dst |-> TRUE]
      [] z = "America/Los_Angeles" -> [std |-> -480, dst |-> TRUE]
      [] z = "America/Denver" -> [std |-> -420, dst |-> TRUE]
      [] z = "America/Mazatlan" -> [std |-> -420, dst |-> FALSE]
      [] z = "America/Costa_Rica" -> [std |-> -360, dst |-> FALSE] ]

\* ZoneInfo(key)
ZoneInfo(key) ==
  IF key \in DOMAIN ZoneRules THEN [t |-> "zone", key |-> key]
  ELSE Raise("ZoneInfoNotFoundError")

\* <<month, day, hour, minute>> before another, within one year.
Before(a, b) ==
  \E i \in 1..4 : a[i] < b[i] /\ \A j \in 1..(i - 1) : a[j] = b[j]

\* utcoffset() that knows no daylight saving.
utcoffset_standard(dt, key) == ZoneRules[key].std

\* utcoffset() of a civil time in a zone, fold = 0, in minutes.  In 2025 the
\* United States' daylight saving runs from 9 March 02:00 to 2 November 02:00;
\* a time in the spring gap takes the offset before the gap, a time in the
\* autumn fold its first occurrence.
utcoffset(dt, key) ==
  LET rule == ZoneRules[key]
      at == <<dt.mo, dt.d, dt.h, dt.mi>>
  IN  IF rule.dst /\ dt.y = 2025 /\ ~Before(at, <<3, 9, 3, 0>>) /\ Before(at, <<11, 2, 2, 0>>)
      THEN rule.std + 60
      ELSE rule.std

\* The civil date and time `minutes` (under a day, either way) after dt.
PlusMinutes(dt, minutes) ==
  LET m == dt.h * 60 + dt.mi + minutes IN
  IF m >= 1440
  THEN LET last == dt.d = DaysInMonth(dt.y, dt.mo) IN
       [dt EXCEPT !.h = (m - 1440) \div 60, !.mi = (m - 1440) % 60,
                  !.d = IF last THEN 1 ELSE dt.d + 1,
                  !.mo = IF last THEN (IF dt.mo = 12 THEN 1 ELSE dt.mo + 1) ELSE dt.mo,
                  !.y = IF last /\ dt.mo = 12 THEN dt.y + 1 ELSE dt.y]
  ELSE IF m < 0
  THEN LET first == dt.d = 1
           pm == IF dt.mo = 1 THEN 12 ELSE dt.mo - 1
           py == IF dt.mo = 1 THEN dt.y - 1 ELSE dt.y
       IN  [dt EXCEPT !.h = (m + 1440) \div 60, !.mi = (m + 1440) % 60,
                      !.d = IF first THEN DaysInMonth(py, pm) ELSE dt.d - 1,
                      !.mo = IF first THEN pm ELSE dt.mo,
                      !.y = IF first THEN py ELSE dt.y]
  ELSE [dt EXCEPT !.h = m \div 60, !.mi = m % 60]

\* astimezone that relabels the civil time as UTC and moves nothing.
astimezone_utc_unshifted(local_dt, key) == [local_dt EXCEPT !.tz = "UTC"]

\* local_dt.replace(tzinfo=ZoneInfo(key)).astimezone(ZoneInfo("UTC"))
astimezone_utc(local_dt, key) ==
  [PlusMinutes(local_dt, 0 - utcoffset(local_dt, key)) EXCEPT !.tz = "UTC"]

TwoDigits(n) == IF n < 10 THEN "0" \o ToString(n) ELSE ToString(n)

\* x.strftime('%Y-%m-%dT%H:%M:%SZ'): only a datetime has .strftime ; strptime
\* set no seconds.
strftime(x) ==
  IF x.t # "datetime" THEN Raise("AttributeError")
  ELSE JStr(ToString(x.y) \o "-" \o TwoDigits(x.mo) \o "-" \o TwoDigits(x.d) \o "T"
            \o TwoDigits(x.h) \o ":" \o TwoDigits(x.mi) \o ":00Z")

\* The statements of parse_observation_time inside its try.
parse_observation_time_try(data, city_info) ==
  LET conditions == DictGet(data, "current_condition", JList(<<JDict(EmptyKV)>>)) IN
  IF IsRaise(conditions) THEN conditions ELSE
  LET current_condition == Index0(conditions) IN
  IF IsRaise(current_condition) THEN current_condition ELSE
  LET local_obs_str == DictGet(current_condition, "localObsDateTime", None) IN
  IF IsRaise(local_obs_str) THEN local_obs_str ELSE
  LET local_dt == strptime(local_obs_str) IN
  IF IsRaise(local_dt) THEN local_dt ELSE
  LET zone == ZoneInfo(city_info.tz) IN
  IF IsRaise(zone) THEN zone ELSE
  strftime(astimezone_utc(local_dt, zone.key))

\* Wttr.parse_observation_time(data, city_info): except Exception returns None.
parse_observation_time(data, city_info) ==
  LET r == parse_observation_time_try(data, city_info) IN
  IF IsRaise(r) THEN None ELSE r

(***************************************************************************)
(* main.py: _get_field_value, _build_point, _write_point                   *)
(***************************************************************************)
\* A Python float, held as a whole number of hundredths.
Float(c) == [t |-> "float", c |-> c]

\* The number a text spells, in hundredths, for the texts the model lets
\* wttr.in send; <<>> for a text that spells no number.
NumberText(s) ==
  CASE s = "20" -> <<2000>>
    [] s = "68" -> <<6800>>
    [] s = "74" -> <<7400>>
    [] s = "30" -> <<3000>>
    [] s = "0" -> <<0>>
    [] s = "12.34" -> <<1234>>
    [] s = "56.78" -> <<5678>>
    [] s = "293" -> <<29300>>
    [] OTHER -> <<>>

\* float(x): ValueError for a text that spells no number, TypeError for a
\* value that is neither text nor number, OverflowError for an integer too
\* large for a float.
PyFloat(x) ==
  CASE x.t = "str" -> IF NumberText(x.s) = <<>> THEN Raise("ValueError")
                      ELSE Float(NumberText(x.s)[1])
    [] x.t = "num" -> Float(x.n * 100)
    [] x.t = "float" -> x
    [] x.t = "bignum" -> Raise("OverflowError")
    [] OTHER -> Raise("TypeError")

\* except (ValueError, TypeError)
CaughtCoercion(r) == IsRaise(r) /\ r.exc \in {"ValueError", "TypeError"}

\* _get_field_value without the Kelvin case: temp_kelvin read from its own key.
_get_field_value_native(field_name, json_key, current_condition, nearest_area) ==
  IF field_name \in {"latitude", "longitude"}
  THEN DictGet(nearest_area, json_key, None)
  ELSE DictGet(current_condition, json_key, None)

\* _get_field_value(field_name, json_key, current_condition, nearest_area)
_get_field_value(field_name, json_key, current_condition, nearest_area) ==
  IF field_name \in {"latitude", "longitude"}
  THEN DictGet(nearest_area, json_key, None)
  ELSE IF field_name = "temp_kelvin"
  THEN LET temp_c == DictGet(current_condition, "temp_C", JNum(0)) IN
       IF IsRaise(temp_c) THEN temp_c ELSE
       LET f == PyFloat(temp_c) IN
       IF CaughtCoercion(f) THEN None
       ELSE IF IsRaise(f) THEN f
       ELSE Float(f.c + KELVIN_OFFSET * 100)
  ELSE DictGet(current_condition, json_key, None)

\* The loop of _build_point without float(): every value found goes into the
\* point as it is.
BuildFieldsUncoerced(measurements, k, current_condition, nearest_area, acc) ==
  LET found == {i \in k..Len(measurements) :
                  DictGet(current_condition, measurements[i][2], None) # None}
      names == {measurements[i][1] : i \in found}
      key(name) == measurements[CHOOSE j \in found : measurements[j][1] = name][2]
  IN  [acc EXCEPT !.fields = [n \in names |-> DictGet(current_condition, key(n), None)],
                  !.missing = <<>>]

\* The loop of _build_point over measurements[k..]: the point's fields and
\* the missing fields it leaves, or the exception that leaves it.
RECURSIVE BuildFields(_, _, _, _, _)
BuildFields(measurements, k, current_condition, nearest_area, acc) ==
  IF k > Len(measurements) THEN acc ELSE
  LET field_name == measurements[k][1]
      value == _get_field_value(field_name, measurements[k][2],
                                current_condition, nearest_area)
  IN  IF IsRaise(value) THEN value ELSE
      LET f == IF value.t = "None" THEN None ELSE PyFloat(value) IN
      IF IsRaise(f) /\ ~CaughtCoercion(f) THEN f ELSE
      LET next == IF f.t = "float"
                  THEN [acc EXCEPT !.fields = [n \in DOMAIN acc.fields \cup {field_name} |->
                                     IF n = field_name THEN f ELSE acc.fields[n]]]
                  ELSE [acc EXCEPT !.missing = Append(acc.missing, field_name)]
      IN  BuildFields(measurements, k + 1, current_condition, nearest_area, next)

\* _build_point without the check of the timestamp: a point at no time.
_build_point_unstamped(data, city_info, measurements, timestamp_dt) ==
  [t |-> "tuple",
   point |-> [t |-> "Point", measurement |-> "weather_data",
              city |-> city_info.city, country |-> city_info.country,
              time |-> "None", fields |-> EmptyKV],
   missing_fields |-> <<>>,
   city |-> city_info.city,
   timestamp |-> JStr("None")]

\* _build_point(data, city_info, measurements, wttr), where timestamp_dt is
\* what wttr.parse_observation_time(data, city_info) returns: the tuple
\* (point, missing_fields, city, timestamp_str), or the exception that
\* leaves the function.
_build_point(data, city_info, measurements, timestamp_dt) ==
  LET conditions == DictGet(data, "current_condition", JList(<<JDict(EmptyKV)>>)) IN
  IF IsRaise(conditions) THEN conditions ELSE
  LET current_condition == Index0(conditions) IN
  IF IsRaise(current_condition) THEN current_condition ELSE
  LET areas == DictGet(data, "nearest_area", JList(<<JDict(EmptyKV)>>)) IN
  IF IsRaise(areas) THEN areas ELSE
  LET nearest_area == Index0(areas) IN
  IF IsRaise(nearest_area) THEN nearest_area ELSE
  IF timestamp_dt.t = "None"
  THEN [t |-> "tuple", point |-> None, missing_fields |-> <<>>,
        city |-> city_info.city, timestamp |-> None]
  ELSE
  LET timestamp_str == strftime(timestamp_dt) IN
  IF IsRaise(timestamp_str) THEN timestamp_str ELSE
  LET built == BuildFields(measurements, 1, current_condition, nearest_area,
                           [t |-> "acc", fields |-> EmptyKV, missing |-> <<>>])
  IN  IF IsRaise(built) THEN built ELSE
      [t |-> "tuple",
       point |-> [t |-> "Point", measurement |-> "weather_data",
                  city |-> city_info.city, country |-> city_info.country,
                  time |-> timestamp_str.s, fields |-> built.fields],
       missing_fields |-> built.missing,
       city |-> city_info.city,
       timestamp |-> timestamp_str]

\* last_seen.get(city)
LastSeenGet(last_seen, city) ==
  IF city \in DOMAIN last_seen THEN last_seen[city] ELSE None

\* is_new computed without the comparison: every timestamp counts as new.
IsNewAlways(last_seen, city, timestamp) == TRUE

\* is_new that holds only for a city that has no entry yet.
IsNewFirstOnly(last_seen, city, timestamp) == LastSeenGet(last_seen, city) = None

\* is_new = last_seen.get(city) != timestamp
IsNew(last_seen, city, timestamp) == LastSeenGet(last_seen, city) # timestamp

\* The assignment last_seen[city] = timestamp left out.
LastSeenKept(last_seen, city, timestamp) == last_seen

\* The assignment made to a fresh dict: the other cities' entries are lost.
LastSeenOnly(last_seen, city, timestamp) == [k \in {city} |-> timestamp]

\* last_seen[city] = timestamp
LastSeenSet(last_seen, city, timestamp) ==
  [k \in DOMAIN last_seen \cup {city} |-> IF k = city THEN timestamp ELSE last_seen[k]]

\* _write_point that stores the timestamp before it knows whether the write
\* succeeded.
_write_point_stores_first(written, city, timestamp, last_seen) ==
  LET is_new == IsNew(last_seen, city, timestamp) IN
  IF is_new
  THEN [ret |-> IF written THEN JStr(city) ELSE None,
        last_seen |-> LastSeenSet(last_seen, city, timestamp)]
  ELSE [ret |-> None, last_seen |-> last_seen]

\* _write_point that stores a new timestamp and falls through to return None.
_write_point_falls_through(written, city, timestamp, last_seen) ==
  LET is_new == IsNew(last_seen, city, timestamp) IN
  IF written /\ is_new
  THEN [ret |-> None, last_seen |-> LastSeenSet(last_seen, city, timestamp)]
  ELSE [ret |-> None, last_seen |-> last_seen]

\* _write_point(influx_manager, point, city, timestamp, missing_fields,
\* last_seen), where written is what influx_manager.write_data(point)
\* returns: the value returned and last_seen as the call leaves it.
_write_point(written, city, timestamp, last_seen) ==
  LET is_new == IsNew(last_seen, city, timestamp) IN
  IF written /\ is_new
  THEN [ret |-> JStr(city), last_seen |-> LastSeenSet(last_seen, city, timestamp)]
  ELSE [ret |-> None, last_seen |-> last_seen]

(***************************************************************************)
(* What wttr.in can answer, and what a stand-in normalizer can return      *)
(***************************************************************************)
Dict1(k1, v1) == JDict([k \in {k1} |-> v1])
Dict2(k1, v1, k2, v2) == JDict([k \in {k1, k2} |-> IF k = k1 THEN v1 ELSE v2])

\* "current_condition": [{...}] of a report observed at the local time `obs`.
Conditions(obs) ==
  JList(<< JDict([k \in {"localObsDateTime", "temp_C", "temp_F", "humidity",
                         "pressureInches", "cloudcover"} |->
                  CASE k = "localObsDateTime" -> JStr(obs)
                    [] k = "temp_C" -> JStr("20")
                    [] k = "temp_F" -> JStr("68")
                    [] k = "humidity" -> JStr("74")
                    [] k = "pressureInches" -> JStr("30")
                    [] k = "cloudcover" -> JStr("0")]) >>)

\* "nearest_area": [{...}] naming the area `name`.
Areas(name) ==
  JList(<< JDict([k \in {"areaName", "latitude", "longitude"} |->
                  CASE k = "areaName" -> JList(<<Dict1("value", JStr(name))>>)
                    [] k = "latitude" -> JStr("12.34")
                    [] k = "longitude" -> JStr("56.78")]) >>)

\* A report of the expected shape.
Report(name, obs) == Dict2("current_condition", Conditions(obs), "nearest_area", Areas(name))

\* A body that is no JSON (an HTML error page).
NotJson == [t |-> "invalid"]

Http(status_code, content_len, body) ==
  [kind |-> "http", status_code |-> status_code, content_len |-> content_len, body |-> body]

\* requests.get raised instead of answering.
Failed(kind) == [kind |-> kind, status_code |-> 0, content_len |-> 0, body |-> NotJson]

\* The bodies an HTTP 200 for `name` can carry.
Bodies200(name) ==
  { Report(name, "2025-10-28 08:28 AM"),
    Report(name, "INVALID"),
    \* at capacity: an empty area name, no conditions
    Report("", "2025-10-28 08:28 AM"),
    Dict2("current_condition", JList(<<>>), "nearest_area", Areas(name)),
    \* no "areaName" in the nearest area
    Dict2("current_condition", Conditions("2025-10-28 08:28 AM"),
          "nearest_area", JList(<<Dict1("latitude", JStr("12.34"))>>)),
    \* "current_condition" an object, not a list of objects
    Dict2("current_condition", Dict1("temp_C", JStr("20")), "nearest_area", Areas(name)),
    \* "nearest_area" an empty list
    Dict2("current_condition", Conditions("2025-10-28 08:28 AM"), "nearest_area", JList(<<>>)),
    \* valid JSON that is no object
    JList(<<>>),
    NotJson }

\* What requests.get(api_url, timeout=10) can produce for the city at
\* position c of CITY_DICTS.
Responses(c) ==
  LET name == CITY_DICTS[c].city
      other == CITY_DICTS[(c % Len(CITY_DICTS)) + 1].city
  IN  {Failed("Timeout"), Failed("ConnectionError"), Failed("RequestException")}
      \cup {Http(200, 4000, b) : b \in Bodies200(name)}
      \cup { Http(404, 200, NotJson),
             Http(404, 4000, NotJson),
             Http(404, 4000, Report(other, "2025-10-28 08:28 AM")),
             Http(404, 4000, Report(name, "2025-10-28 08:28 AM")),
             Http(404, 200, Report(other, "2025-10-28 08:28 AM")),
             Http(404, 4000, JList(<<>>)),
             Http(500, 200, NotJson),
             Http(503, 4000, Report(name, "2025-10-28 08:28 AM")) }

\* What the parse_observation_time of the tests' MagicMock returns: None, or
\* a datetime object.
MockReturns ==
  { None,
    DateTime(2025, 4, 21, 11, 55, "naive"),
    DateTime(2025, 10, 28, 15, 28, "naive") }

(***************************************************************************)
(* The daemon: main, _collect_weather_data,                                *)
(* _fetch_and_process_weather_data                                         *)
(***************************************************************************)
VARIABLES
  wttr,                  \* the normalizer _build_point is given: "Wttr" or "MagicMock"
  pc,                    \* where main is: "loop", "fetch", "transform", "record",
                         \* "sleep", or "crashed" (an exception left main)
  session,               \* the cycle's InfluxDB client: "none", "open", "closed"
  last_seen_timestamps,  \* city name -> timestamp last recorded
  results,               \* the fetch phase's result per city: Pending, None, data or
                         \* the exception fetch_data raised
  done,                  \* how many cities the transform phase has gone through
  points_to_write,       \* the points the transform phase built, in order
  wrote,                 \* how many points the record phase has gone through
  recorded_cities,       \* the cities _write_point returned in this cycle
  \* What happened, kept to state the properties:
  lastFetch,             \* the fetch phase's latest fetch_data call
  normalized,            \* per city, what parse_observation_time returned in this cycle
  built,                 \* per city, what _build_point returned or raised in this cycle
  attempts,              \* per city name, the write_data calls of this cycle
  lastCall,              \* this cycle's latest _write_point call
  lastWrite,             \* the latest _write_point call of the process, in short
  recorded,              \* the <<city, timestamp>> pairs _write_point has returned for
  lastRecorded,          \* city name -> timestamp of the latest call that returned the city
  fetched,               \* per city, the fetch_data calls of this cycle
  seen_at_start,         \* last_seen_timestamps as this cycle found it
  completed,             \* the cities in the order their fetch_data calls of this
                         \* cycle ended
  last_written,          \* city name -> timestamp of the latest point write_data wrote
  total_duration,        \* whole seconds from the start of the latest cycle to its end
  \* A function called on its own, as tests.py calls it:
  call                   \* the function, its arguments and what it returned

vars ==
  << wttr, pc, session, last_seen_timestamps, results, done, points_to_write, wrote,
     recorded_cities, lastFetch, normalized, built, attempts, lastCall, lastWrite,
     recorded, lastRecorded, fetched, seen_at_start, completed, last_written,
     total_duration, call >>

Pending == [t |-> "pending"]
NotCalled == [t |-> "notcalled"]

\* The locals of a cycle when none runs, and as one starts.
CycleStarts ==
  /\ results' = [c \in Cities |-> Pending]
  /\ done' = 0
  /\ points_to_write' = <<>>
  /\ wrote' = 0
  /\ recorded_cities' = <<>>
  /\ lastFetch' = NotCalled
  /\ normalized' = [c \in Cities |-> NotCalled]
  /\ built' = [c \in Cities |-> NotCalled]
  /\ attempts' = [n \in CityNames |-> 0]
  /\ lastCall' = NotCalled
  /\ fetched' = [c \in Cities |-> 0]
  /\ completed' = <<>>

\* main up to its loop: no timestamp seen, no cycle run.  The normalizer is
\* the Wttr that _collect_weather_data makes, or the MagicMock that the tests
\* hand to _build_point.
Init ==
  /\ wttr \in {"Wttr", "MagicMock"}
  /\ pc = "loop"
  /\ session = "none"
  /\ last_seen_timestamps = EmptyKV
  /\ results = [c \in Cities |-> Pending]
  /\ done = 0
  /\ points_to_write = <<>>
  /\ wrote = 0
  /\ recorded_cities = <<>>
  /\ lastFetch = NotCalled
  /\ normalized = [c \in Cities |-> NotCalled]
  /\ built = [c \in Cities |-> NotCalled]
  /\ attempts = [n \in CityNames |-> 0]
  /\ lastCall = NotCalled
  /\ lastWrite = NotCalled
  /\ recorded = {}
  /\ lastRecorded = EmptyKV
  /\ fetched = [c \in Cities |-> 0]
  /\ seen_at_start = EmptyKV
  /\ completed = <<>>
  /\ last_written = EmptyKV
  /\ total_duration = 0
  /\ call = NotCalled

\* main calls _collect_weather_data (at once, or as time.sleep(30) returns):
\* a new InfluxDBClientManager, the bucket is there or is created, and
\* executor.map submits one fetch_data per city.
StartCycle ==
  /\ pc \in {"loop", "sleep"}
  /\ \E bucket_exists, create_bucket \in BOOLEAN :
       /\ bucket_exists \/ create_bucket
       /\ pc' = "fetch"
  /\ session' = "open"
  /\ CycleStarts
  /\ seen_at_start' = last_seen_timestamps
  /\ total_duration' = 0
  /\ UNCHANGED <<wttr, last_seen_timestamps, lastWrite, recorded, lastRecorded,
                 last_written, call>>

\* _collect_weather_data returns early: the bucket is not there and cannot
\* be created.  The client is not closed.
BucketFailed ==
  /\ pc \in {"loop", "sleep"}
  /\ pc' = "sleep"
  /\ session' = "open"
  /\ CycleStarts
  /\ seen_at_start' = last_seen_timestamps
  /\ total_duration' = 0
  /\ UNCHANGED <<wttr, last_seen_timestamps, lastWrite, recorded, lastRecorded,
                 last_written, call>>

\* A fetch phase that keeps the results in the order the calls end, as
\* concurrent.futures.as_completed would give them.
FetchAsCompleted(c) ==
  /\ pc = "fetch"
  /\ fetched[c] = 0
  /\ \E response \in Responses(c) :
       LET ret == fetch_data(response, CITY_DICTS[c]) IN
       /\ results' = [results EXCEPT ![Len(completed) + 1] = ret]
       /\ lastFetch' = [t |-> "call", city |-> CITY_DICTS[c].city,
                        response |-> response, ret |-> ret]
  /\ fetched' = [fetched EXCEPT ![c] = @ + 1]
  /\ completed' = Append(completed, c)
  /\ UNCHANGED <<seen_at_start, last_written, total_duration, call>>
  /\ UNCHANGED <<wttr, pc, session, last_seen_timestamps, done, points_to_write, wrote,
                 recorded_cities, normalized, built, attempts, lastCall, lastWrite,
                 recorded, lastRecorded>>

\* A worker thread runs wttr.fetch_data for the city at position c.
Fetch(c) ==
  /\ pc = "fetch"
  /\ results[c] = Pending
  /\ \E response \in Responses(c) :
       LET ret == fetch_data(response, CITY_DICTS[c]) IN
       /\ results' = [results EXCEPT ![c] = ret]
       /\ lastFetch' = [t |-> "call", city |-> CITY_DICTS[c].city,
                        response |-> response, ret |-> ret]
  /\ fetched' = [fetched EXCEPT ![c] = @ + 1]
  /\ completed' = Append(completed, c)
  /\ UNCHANGED <<seen_at_start, last_written, total_duration, call>>
  /\ UNCHANGED <<wttr, pc, session, last_seen_timestamps, done, points_to_write, wrote,
                 recorded_cities, normalized, built, attempts, lastCall, lastWrite,
                 recorded, lastRecorded>>

\* A join that does not wait: the transform phase starts on the results
\* there are.
JoinWithoutWait ==
  /\ pc = "fetch"
  /\ pc' = "transform"
  /\ lastFetch' = NotCalled
  /\ \E seconds \in 0..MaxFetchSeconds : total_duration' = seconds
  /\ UNCHANGED <<fetched, seen_at_start, completed, last_written, call>>
  /\ UNCHANGED <<wttr, session, last_seen_timestamps, results, done, points_to_write,
                 wrote, recorded_cities, normalized, built, attempts, lastCall,
                 lastWrite, recorded, lastRecorded>>

\* The executor has run every fetch; list(executor.map(...)) returns the
\* results, or raises what a fetch_data raised, which nothing catches.  The
\* fetch phase has taken its time; the other phases take none to speak of.
Join ==
  /\ pc = "fetch"
  /\ \A c \in Cities : results[c] # Pending
  /\ pc' = IF \E c \in Cities : IsRaise(results[c]) THEN "crashed" ELSE "transform"
  /\ lastFetch' = NotCalled
  /\ \E seconds \in 0..MaxFetchSeconds : total_duration' = seconds
  /\ UNCHANGED <<fetched, seen_at_start, completed, last_written, call>>
  /\ UNCHANGED <<wttr, session, last_seen_timestamps, results, done, points_to_write,
                 wrote, recorded_cities, normalized, built, attempts, lastCall,
                 lastWrite, recorded, lastRecorded>>

\* What wttr.parse_observation_time(data, city_info) can return.
NormalizerReturns(data, city_info) ==
  IF wttr = "Wttr" THEN {parse_observation_time(data, city_info)} ELSE MockReturns

\* One turn of the transform loop: the next city's result, through
\* _build_point if there is data.  An exception of _build_point leaves main.
Transform ==
  /\ pc = "transform"
  /\ done < NumCities
  /\ LET c == done + 1
         data == results[c]
         city_info == CITY_DICTS[c]
     IN  IF ~Truthy(data)
         THEN /\ done' = done + 1
              /\ UNCHANGED <<pc, points_to_write, normalized, built>>
         ELSE \E timestamp_dt \in NormalizerReturns(data, city_info) :
                LET b == _build_point(data, city_info, MEASUREMENTS, timestamp_dt)
                    called == ~IsRaise(_build_point(data, city_info, MEASUREMENTS, None))
                IN  /\ normalized' = [normalized EXCEPT ![c] =
                                        IF called THEN timestamp_dt ELSE NotCalled]
                    /\ built' = [built EXCEPT ![c] = b]
                    /\ IF IsRaise(b)
                       THEN /\ pc' = "crashed"
                            /\ UNCHANGED <<done, points_to_write>>
                       ELSE /\ pc' = pc
                            /\ done' = done + 1
                            /\ points_to_write' =
                                 IF b.point.t # "None"
                                 THEN Append(points_to_write,
                                             [point |-> b.point, city |-> b.city,
                                              timestamp |-> b.timestamp,
                                              missing_fields |-> b.missing_fields])
                                 ELSE points_to_write
  /\ UNCHANGED <<fetched, seen_at_start, completed, last_written, total_duration, call>>
  /\ UNCHANGED <<wttr, session, last_seen_timestamps, results, wrote, recorded_cities,
                 lastFetch, attempts, lastCall, lastWrite, recorded, lastRecorded>>

\* The transform loop is over; the record loop starts.
TransformDone ==
  /\ pc = "transform"
  /\ done = NumCities
  /\ pc' = "record"
  /\ UNCHANGED <<fetched, seen_at_start, completed, last_written, total_duration, call>>
  /\ UNCHANGED <<wttr, session, last_seen_timestamps, results, done, points_to_write,
                 wrote, recorded_cities, lastFetch, normalized, built, attempts,
                 lastCall, lastWrite, recorded, lastRecorded>>

\* One turn of the record loop: _write_point for the next point.
\* influx_manager.write_data returns True, or False when the write raised.
WritePoint ==
  /\ pc = "record"
  /\ wrote < Len(points_to_write)
  /\ \E written \in BOOLEAN :
       LET e == points_to_write[wrote + 1]
           r == _write_point(written, e.city, e.timestamp, last_seen_timestamps)
       IN  /\ last_seen_timestamps' = r.last_seen
           /\ recorded_cities' = IF Truthy(r.ret) THEN Append(recorded_cities, r.ret.s)
                                 ELSE recorded_cities
           /\ attempts' = [attempts EXCEPT ![e.city] = @ + 1]
           /\ lastCall' = [t |-> "call", city |-> e.city, timestamp |-> e.timestamp,
                           written |-> written, before |-> last_seen_timestamps,
                           ret |-> r.ret, prev |-> lastWrite,
                           again |-> <<e.city, e.timestamp.s>> \in recorded,
                           prev_recorded |-> IF e.city \in DOMAIN lastRecorded
                                             THEN lastRecorded[e.city] ELSE None]
           /\ lastWrite' = [t |-> "call", city |-> e.city, timestamp |-> e.timestamp,
                            written |-> written,
                            is_new |-> IsNew(last_seen_timestamps, e.city, e.timestamp),
                            ret |-> r.ret]
           /\ recorded' = IF Truthy(r.ret) THEN recorded \cup {<<r.ret.s, e.timestamp.s>>}
                          ELSE recorded
           /\ lastRecorded' = IF Truthy(r.ret)
                              THEN [k \in DOMAIN lastRecorded \cup {r.ret.s} |->
                                      IF k = r.ret.s THEN e.timestamp
                                      ELSE lastRecorded[k]]
                              ELSE lastRecorded
           /\ last_written' = IF written
                              THEN [k \in DOMAIN last_written \cup {e.city} |->
                                      IF k = e.city THEN e.timestamp
                                      ELSE last_written[k]]
                              ELSE last_written
  /\ wrote' = wrote + 1
  /\ UNCHANGED <<fetched, seen_at_start, completed, total_duration, call>>
  /\ UNCHANGED <<wttr, pc, session, results, done, points_to_write, lastFetch,
                 normalized, built>>

\* The record loop is over: influx_manager.close(), the summary line,
\* _collect_weather_data returns (its locals are gone) and main sleeps.
FinishCycle ==
  /\ pc = "record"
  /\ wrote = Len(points_to_write)
  /\ session' = "closed"
  /\ pc' = "sleep"
  /\ CycleStarts
  /\ UNCHANGED <<wttr, last_seen_timestamps, lastWrite, recorded, lastRecorded,
                 seen_at_start, last_written, total_duration, call>>

Next ==
  \/ StartCycle
  \/ BucketFailed
  \/ \E c \in Cities : Fetch(c)
  \/ Join
  \/ Transform
  \/ TransformDone
  \/ WritePoint
  \/ FinishCycle

Spec == Init /\ [][Next]_vars

(***************************************************************************)
(* _build_point and Wttr.parse_observation_time called on their own, as    *)
(* tests.py calls them, on the reports wttr.in can send                    *)
(***************************************************************************)
\* A key that a report does not carry.
Absent == [t |-> "absent"]

\* The dict of the keys of kv that are present.
Present(kv) == [k \in {j \in DOMAIN kv : kv[j] # Absent} |-> kv[k]]

\* A report whose current condition was observed at the local time `obs`
\* (a JSON value, or Absent) and carries these values, or not, under
\* "temp_C", "temp_K" and "humidity", and whose nearest area carries this
\* "latitude".
Observation(obs, temp_C, temp_K, humidity, latitude) ==
  Dict2("current_condition",
        JList(<< JDict(Present(
          [k \in {"localObsDateTime", "temp_C", "temp_K", "temp_F", "humidity",
                  "pressureInches", "cloudcover"} |->
           CASE k = "localObsDateTime" -> obs
             [] k = "temp_C" -> temp_C
             [] k = "temp_K" -> temp_K
             [] k = "temp_F" -> JStr("68")
             [] k = "humidity" -> humidity
             [] k = "pressureInches" -> JStr("30")
             [] k = "cloudcover" -> JStr("0")])) >>),
        "nearest_area",
        JList(<< JDict(Present(
          [k \in {"latitude", "longitude"} |->
           IF k = "latitude" THEN latitude ELSE JStr("56.78")])) >>))

\* What a report can carry under a key that should hold a number: nothing,
\* a number as text, text that is no number, a number, null, a list, an
\* integer beyond a float.
SourceValues ==
  {Absent, JStr("20"), JStr("abc"), JNum(20), None, JList(<<>>), JBig}

\* The reports _build_point is called on.
Observations ==
  { Observation(JStr(obs), temp_C, temp_K, humidity, latitude) :
      obs \in {"2025-10-28 08:28 AM", "INVALID"},
      temp_C \in SourceValues,
      temp_K \in {Absent, JStr("293"), JStr("0")},
      humidity \in {Absent, JStr("74"), JStr("abc")},
      latitude \in {Absent, JStr("12.34")} }

\* The local observation times parse_observation_time is called on.
LocalTimes ==
  { "2025-04-21 11:55 AM", "2025-10-28 08:28 AM", "2025-10-28 11:30 PM",
    "2025-10-28 12:05 AM", "2025-12-31 11:30 PM",
    "2025-03-09 02:00 AM", "2025-03-09 02:30 AM", "2025-03-09 03:00 AM",
    "2025-11-02 01:30 AM", "2025-11-02 01:59 AM", "2025-11-02 02:00 AM",
    "2025-02-30 10:00 AM", "2025-10-28 13:05 PM", "INVALID", "" }

\* The reports parse_observation_time is called on: an observation time, a
\* null one, none, no current condition, an empty list of conditions.
TimedReports ==
  { Dict1("current_condition", JList(<<Dict1("localObsDateTime", JStr(text))>>)) :
      text \in LocalTimes }
  \cup { Dict1("current_condition", JList(<<Dict1("localObsDateTime", None)>>)),
         Dict1("current_condition", JList(<<Dict1("temp_C", JStr("20"))>>)),
         JDict(EmptyKV),
         Dict1("current_condition", JList(<<>>)) }

\* The city of tests.py, and a city whose zone the tz database does not have.
TestCity == [city |-> "TestCity", country |-> "TestCountry", tz |-> "UTC"]
LostCity == [city |-> "Olympus", country |-> "MARS", tz |-> "Mars/Base"]

\* Every configured city, and these two.
CityInfos == {CITY_DICTS[i] : i \in 1..Len(CITY_DICTS)} \cup {TestCity, LostCity}

\* The state of main that a call on its own leaves alone.
main_vars ==
  << pc, session, last_seen_timestamps, results, done, points_to_write, wrote,
     recorded_cities, lastFetch, normalized, built, attempts, lastCall, lastWrite,
     recorded, lastRecorded, fetched, seen_at_start, completed, last_written,
     total_duration >>

\* A test is about to call _build_point, with the real normalizer or the
\* MagicMock, or Wttr.parse_observation_time.
InitCalls ==
  /\ \/ /\ wttr \in {"Wttr", "MagicMock"}
        /\ call \in [t : {"args"}, f : {"_build_point"}, data : Observations,
                     city_info : {CITY_DICTS[1], TestCity},
                     timestamp_dt : {NotCalled}, ret : {NotCalled}]
     \/ /\ wttr = "Wttr"
        /\ call \in [t : {"args"}, f : {"parse_observation_time"}, data : TimedReports,
                     city_info : CityInfos,
                     timestamp_dt : {NotCalled}, ret : {NotCalled}]
  /\ pc = "loop"
  /\ session = "none"
  /\ last_seen_timestamps = EmptyKV
  /\ results = [c \in Cities |-> Pending]
  /\ done = 0
  /\ points_to_write = <<>>
  /\ wrote = 0
  /\ recorded_cities = <<>>
  /\ lastFetch = NotCalled
  /\ normalized = [c \in Cities |-> NotCalled]
  /\ built = [c \in Cities |-> NotCalled]
  /\ attempts = [n \in CityNames |-> 0]
  /\ lastCall = NotCalled
  /\ lastWrite = NotCalled
  /\ recorded = {}
  /\ lastRecorded = EmptyKV
  /\ fetched = [c \in Cities |-> 0]
  /\ seen_at_start = EmptyKV
  /\ completed = <<>>
  /\ last_written = EmptyKV
  /\ total_duration = 0

\* _build_point(data, city_info, settings.MEASUREMENTS, wttr) runs.
BuildPoint ==
  /\ call.t = "args"
  /\ call.f = "_build_point"
  /\ \E timestamp_dt \in NormalizerReturns(call.data, call.city_info) :
       call' = [call EXCEPT !.t = "returned",
                            !.timestamp_dt = timestamp_dt,
                            !.ret = _build_point(call.data, call.city_info,
                                                 MEASUREMENTS, timestamp_dt)]
  /\ UNCHANGED <<wttr, main_vars>>

\* wttr.parse_observation_time(data, city_info) runs.
ParseObservationTime ==
  /\ call.t = "args"
  /\ call.f = "parse_observation_time"
  /\ call' = [call EXCEPT !.t = "returned",
                          !.ret = parse_observation_time(call.data, call.city_info)]
  /\ UNCHANGED <<wttr, main_vars>>

NextCalls ==
  \/ BuildPoint
  \/ ParseObservationTime

Calls == InitCalls /\ [][NextCalls]_vars

(***************************************************************************)
(* Properties                                                              *)
(***************************************************************************)
\* A cycle is over: its record loop has gone through every point, or an
\* exception has left main.
CycleOver ==
  \/ pc = "crashed"
  \/ pc = "record" /\ wrote = Len(points_to_write)

\* The latest _write_point call of this cycle came right after a call for
\* the same city and timestamp.
SamePairAgain ==
  /\ lastCall.t = "call"
  /\ lastCall.prev.t = "call"
  /\ lastCall.prev.city = lastCall.city
  /\ lastCall.prev.timestamp = lastCall.timestamp

\* C1, as stated: over the process's life _write_point returns the city at
\* most once for a (city, timestamp) pair, whatever the order of the
\* timestamps.
C1_RecordedOncePerPair ==
  (lastCall.t = "call" /\ Truthy(lastCall.ret)) => ~lastCall.again

\* C1, amended: _write_point returns the city for a (city, timestamp) pair
\* only if the latest call that returned this city carried another
\* timestamp: two successive "recorded" signals of a city never carry the
\* same timestamp.
C1_RecordedOncePerRun ==
  (lastCall.t = "call" /\ Truthy(lastCall.ret)) =>
    lastCall.prev_recorded # lastCall.timestamp

\* A pair is recorded a second time, after another timestamp of the city.
C1_Witness ==
  /\ lastCall.t = "call"
  /\ Truthy(lastCall.ret)
  /\ lastCall.again
  /\ lastCall.prev_recorded.t = "str"

\* C2: no error of the fetch, transform or write path ends the daemon loop:
\* no exception ever leaves main.
C2_LoopNeverEnds == pc # "crashed"

\* C3: when the real Wttr.parse_observation_time returned a timestamp for a
\* city's report, _build_point returns a point (it does not raise) whose
\* timestamp is that string.
C3_BuildAcceptsNormalized ==
  \A c \in Cities :
    (wttr = "Wttr" /\ normalized[c].t = "str") =>
      /\ built[c].t = "tuple"
      /\ built[c].point.t = "Point"
      /\ built[c].timestamp = normalized[c]

\* C4: fetch_data never raises: whatever the status, the body or the
\* transport failure, it returns data or None.
C4_FetchNeverRaises ==
  /\ \A c \in Cities : ~IsRaise(results[c])
  /\ lastFetch.t = "call" => ~IsRaise(lastFetch.ret)

\* The area name of a report of the expected shape is a non-empty text.
HasAreaName(body) ==
  /\ body.t = "dict"
  /\ "nearest_area" \in DOMAIN body.kv
  /\ body.kv["nearest_area"].t = "list"
  /\ Len(body.kv["nearest_area"].items) > 0
  /\ LET area == body.kv["nearest_area"].items[1] IN
       /\ area.t = "dict"
       /\ "areaName" \in DOMAIN area.kv
       /\ area.kv["areaName"].t = "list"
       /\ Len(area.kv["areaName"].items) > 0
       /\ LET name == area.kv["areaName"].items[1] IN
            /\ name.t = "dict"
            /\ "value" \in DOMAIN name.kv
            /\ name.kv["value"].t = "str"
            /\ name.kv["value"].s # ""

\* The current conditions of a report are a non-empty list.
HasConditions(body) ==
  /\ body.t = "dict"
  /\ "current_condition" \in DOMAIN body.kv
  /\ body.kv["current_condition"].t = "list"
  /\ Len(body.kv["current_condition"].items) > 0

\* C5: fetch_data returns data only for an HTTP 200 whose body parses and
\* has a non-empty area name and a non-empty list of conditions; for an
\* HTTP 404 it returns None, whatever the body.
C5_DataOnlyFromGood200 ==
  lastFetch.t = "call" =>
    /\ lastFetch.ret.t = "dict" =>
         /\ lastFetch.response.kind = "http"
         /\ lastFetch.response.status_code = 200
         /\ HasAreaName(lastFetch.response.body)
         /\ HasConditions(lastFetch.response.body)
    /\ (lastFetch.response.kind = "http" /\ lastFetch.response.status_code = 404) =>
         lastFetch.ret = None

C7_NewTimestampRecorded ==
  (/\ lastCall.t = "call"
   /\ lastCall.written
   /\ LastSeenGet(lastCall.before, lastCall.city) # lastCall.timestamp) =>
    /\ lastCall.city \in DOMAIN last_seen_timestamps
    /\ last_seen_timestamps[lastCall.city] = lastCall.timestamp
    /\ lastCall.ret = JStr(lastCall.city)

\* Such a call has replaced the timestamp of a city that had one.
C7_Witness ==
  /\ lastCall.t = "call"
  /\ lastCall.written
  /\ lastCall.city \in DOMAIN lastCall.before
  /\ lastCall.before[lastCall.city] # lastCall.timestamp

\* C8: a _write_point call whose write fails returns None and leaves every
\* entry of last_seen as it was; the next call for the same city and
\* timestamp, if its write succeeds, still finds the timestamp new.
C8_FailedWriteLeavesIndex ==
  /\ (lastCall.t = "call" /\ ~lastCall.written) =>
       /\ lastCall.ret = None
       /\ last_seen_timestamps = lastCall.before
  /\ (SamePairAgain /\ ~lastCall.prev.written /\ lastCall.prev.is_new
        /\ lastCall.written) =>
       lastCall.ret = JStr(lastCall.city)

\* A write has failed for a new timestamp of a city that has an entry, and
\* the next call has written the same timestamp.
C8_Witness ==
  /\ SamePairAgain
  /\ ~lastCall.prev.written
  /\ lastCall.prev.is_new
  /\ lastCall.written
  /\ lastCall.city \in DOMAIN lastCall.before

C10_EveryUsableCityWritten ==
  /\ pc # "crashed"
  /\ CycleOver =>
       \A c \in Cities :
         (Truthy(results[c]) /\ normalized[c].t \in {"str", "datetime"}) =>
           attempts[CITY_DICTS[c].city] >= 1


\* The current condition and the nearest area of the report of the call.
CallCondition == call.data.kv["current_condition"].items[1]
CallArea == call.data.kv["nearest_area"].items[1]

\* _build_point has run on a report, the normalizer having returned a
\* datetime.
BuiltCall ==
  /\ call.t = "returned"
  /\ call.f = "_build_point"
  /\ call.timestamp_dt.t = "datetime"

\* The value a field is to be taken from: "latitude" and "longitude" from
\* the nearest area, temp_kelvin from the current condition's "temp_C",
\* every other field from its own key in the current condition; Absent if
\* the key is not there.
SourceValue(i) ==
  LET field_name == MEASUREMENTS[i][1]
      json_key == IF field_name = "temp_kelvin" THEN "temp_C" ELSE MEASUREMENTS[i][2]
      region == IF field_name \in {"latitude", "longitude"} THEN CallArea
                ELSE CallCondition
  IN  IF json_key \in DOMAIN region.kv THEN region.kv[json_key] ELSE Absent

\* A value that is a number, or text that spells one.
Numeric(v) == v.t = "num" \/ (v.t = "str" /\ NumberText(v.s) # <<>>)

\* The number, in hundredths, of a Numeric value.
NumberOf(v) == IF v.t = "num" THEN v.n * 100 ELSE NumberText(v.s)[1]

FieldNames == {MEASUREMENTS[i][1] : i \in 1..Len(MEASUREMENTS)}
MissingSet == {call.ret.missing_fields[i] : i \in 1..Len(call.ret.missing_fields)}

\* C11: when _build_point runs on a report, every field whose source key
\* is absent or whose source value is no number is left out of the point and
\* named in the missing-fields list; temp_kelvin's source is "temp_C".
C11_UnusableSourceOmitted ==
  BuiltCall =>
    /\ call.ret.t = "tuple"
    /\ \A i \in 1..Len(MEASUREMENTS) :
         ~Numeric(SourceValue(i)) =>
           /\ MEASUREMENTS[i][1] \notin DOMAIN call.ret.point.fields
           /\ MEASUREMENTS[i][1] \in MissingSet

\* C12: when _build_point returns a point, every field of MEASUREMENTS is
\* either a field of the point or named once in the missing-fields list,
\* never both, and every field of the point holds a float.
C12_FieldsPartition ==
  (/\ call.t = "returned"
   /\ call.f = "_build_point"
   /\ call.ret.t = "tuple"
   /\ call.ret.point # None) =>
    /\ DOMAIN call.ret.point.fields \cap MissingSet = {}
    /\ DOMAIN call.ret.point.fields \cup MissingSet = FieldNames
    /\ Cardinality(MissingSet) = Len(call.ret.missing_fields)
    /\ \A n \in DOMAIN call.ret.point.fields : call.ret.point.fields[n].t = "float"

\* _build_point has returned a point that has fields and leaves fields out.
C12_Witness ==
  /\ call.t = "returned"
  /\ call.f = "_build_point"
  /\ call.ret.t = "tuple"
  /\ call.ret.point # None
  /\ Len(call.ret.missing_fields) >= 2
  /\ "temp_fahrenheit" \in DOMAIN call.ret.point.fields

\* C13: when _build_point runs on a report whose "temp_C" is the number c,
\* the point has temp_celsius = c and temp_kelvin = c + 273, whatever the
\* report carries under "temp_K", and temp_kelvin is not named missing.
C13_KelvinDerived ==
  (BuiltCall /\ Numeric(SourceValue(3))) =>
    /\ call.ret.t = "tuple"
    /\ call.ret.point # None
    /\ "temp_celsius" \in DOMAIN call.ret.point.fields
    /\ call.ret.point.fields["temp_celsius"] = Float(NumberOf(SourceValue(3)))
    /\ "temp_kelvin" \in DOMAIN call.ret.point.fields
    /\ call.ret.point.fields["temp_kelvin"] =
         Float(NumberOf(SourceValue(3)) + 273 * 100)
    /\ "temp_kelvin" \notin MissingSet

\* _build_point has run on a report with a numeric "temp_C" and a "temp_K"
\* that is another temperature.
C13_Witness ==
  /\ BuiltCall
  /\ Numeric(SourceValue(3))
  /\ "temp_K" \in DOMAIN CallCondition.kv
  /\ CallCondition.kv["temp_K"] = JStr("0")
  /\ call.ret.t = "tuple"


\* C14: when the normalizer returned None for a city's report, _build_point
\* returns (None, [], city, None); the city is not among the points to
\* write, no write is attempted for it and its entry of
\* last_seen_timestamps stays as the cycle found it.
C14_NoTimestampNoPoint ==
  \A c \in Cities :
    normalized[c] = None =>
      /\ built[c] = [t |-> "tuple", point |-> None, missing_fields |-> <<>>,
                     city |-> CITY_DICTS[c].city, timestamp |-> None]
      /\ \A i \in 1..Len(points_to_write) : points_to_write[i].city # CITY_DICTS[c].city
      /\ attempts[CITY_DICTS[c].city] = 0
      /\ LastSeenGet(last_seen_timestamps, CITY_DICTS[c].city)
           = LastSeenGet(seen_at_start, CITY_DICTS[c].city)

\* A cycle's record loop is over, in which a city that has an entry got no
\* timestamp and another city was recorded.
C14_Witness ==
  /\ pc = "record"
  /\ wrote = Len(points_to_write)
  /\ \E c \in Cities :
       /\ normalized[c] = None
       /\ CITY_DICTS[c].city \in DOMAIN last_seen_timestamps
  /\ last_seen_timestamps # seen_at_start


\* parse_observation_time has run on a report.
ParsedCall == call.t = "returned" /\ call.f = "parse_observation_time"

\* The observation time of the report of the call, None if it has none.
CallLocalTime ==
  IF /\ "current_condition" \in DOMAIN call.data.kv
     /\ Len(call.data.kv["current_condition"].items) > 0
     /\ "localObsDateTime" \in DOMAIN call.data.kv["current_condition"].items[1].kv
  THEN call.data.kv["current_condition"].items[1].kv["localObsDateTime"]
  ELSE None

\* The local times of LocalTimes that are a date and a time of day in the
\* format YYYY-MM-DD HH:MM AM|PM.
WellFormedTimes ==
  { "2025-04-21 11:55 AM", "2025-10-28 08:28 AM", "2025-10-28 11:30 PM",
    "2025-10-28 12:05 AM", "2025-12-31 11:30 PM",
    "2025-03-09 02:00 AM", "2025-03-09 02:30 AM", "2025-03-09 03:00 AM",
    "2025-11-02 01:30 AM", "2025-11-02 01:59 AM", "2025-11-02 02:00 AM" }

WellFormedCall ==
  /\ ParsedCall
  /\ CallLocalTime.t = "str"
  /\ CallLocalTime.s \in WellFormedTimes
  /\ call.city_info.tz \in DOMAIN ZoneRules

\* UTC instants known from the calendar: <<local time, zone, UTC rendering>>.
KnownInstants ==
  { <<"2025-10-28 08:28 AM", "America/Los_Angeles", "2025-10-28T15:28:00Z">>,
    <<"2025-10-28 08:28 AM", "America/New_York", "2025-10-28T12:28:00Z">>,
    <<"2025-10-28 08:28 AM", "America/Denver", "2025-10-28T14:28:00Z">>,
    <<"2025-10-28 08:28 AM", "America/Mazatlan", "2025-10-28T15:28:00Z">>,
    <<"2025-10-28 08:28 AM", "America/Costa_Rica", "2025-10-28T14:28:00Z">>,
    <<"2025-10-28 11:30 PM", "America/Los_Angeles", "2025-10-29T06:30:00Z">>,
    <<"2025-12-31 11:30 PM", "America/Los_Angeles", "2026-01-01T07:30:00Z">>,
    <<"2025-12-31 11:30 PM", "America/New_York", "2026-01-01T04:30:00Z">>,
    <<"2025-10-28 12:05 AM", "America/Costa_Rica", "2025-10-28T06:05:00Z">>,
    <<"2025-04-21 11:55 AM", "UTC", "2025-04-21T11:55:00Z">>,
    <<"2025-04-21 11:55 AM", "America/New_York", "2025-04-21T15:55:00Z">>,
    <<"2025-03-09 03:00 AM", "America/Denver", "2025-03-09T09:00:00Z">>,
    <<"2025-11-02 02:00 AM", "America/Denver", "2025-11-02T09:00:00Z">>,
    <<"2025-11-02 02:00 AM", "America/New_York", "2025-11-02T07:00:00Z">> }

LocalOf(u, key) ==
  LET rule == ZoneRules[key]
      standard == PlusMinutes(u, rule.std)
      at == <<standard.mo, standard.d, standard.h, standard.mi>>
      saving == /\ rule.dst
                /\ standard.y = 2025
                /\ ~Before(at, <<3, 9, 2, 0>>)
                /\ Before(at, <<11, 2, 1, 0>>)
  IN  [PlusMinutes(u, rule.std + (IF saving THEN 60 ELSE 0)) EXCEPT !.tz = "naive"]

\* The civil time that the local time of the call spells.
CallCivil == strptime(CallLocalTime)

\* The UTC instants, up to 12 hours after the civil time of the call, whose
\* rendering is what the call returned.
ReturnedInstants ==
  { u \in {[PlusMinutes(CallCivil, 60 * k) EXCEPT !.tz = "UTC"] : k \in 0..12} :
      strftime(u) = call.ret }

\* A civil time that the zone's clocks skip in spring.
InGap(dt, key) ==
  /\ ZoneRules[key].dst
  /\ dt.y = 2025 /\ dt.mo = 3 /\ dt.d = 9 /\ dt.h = 2

\* C16, as stated: the instant parse_observation_time returns, shown on the
\* zone's clocks, is the local time it was given, whatever the local time.
C16_RoundTripAlways ==
  WellFormedCall =>
    /\ ReturnedInstants # {}
    /\ \A u \in ReturnedInstants : LocalOf(u, call.city_info.tz) = CallCivil

\* C16, amended: the same for every local time that the zone's clocks show,
\* the first of the two in an autumn fold; a local time in a spring gap
\* comes back one hour later.
C16_RoundTripOutsideGap ==
  WellFormedCall =>
    /\ ReturnedInstants # {}
    /\ \A u \in ReturnedInstants :
         LocalOf(u, call.city_info.tz) =
           IF InGap(CallCivil, call.city_info.tz) THEN PlusMinutes(CallCivil, 60)
           ELSE CallCivil

\* A local time in an autumn fold has been converted.
C16_Witness ==
  /\ WellFormedCall
  /\ CallLocalTime = JStr("2025-11-02 01:30 AM")
  /\ call.city_info.tz = "America/New_York"
  /\ call.ret = JStr("2025-11-02T05:30:00Z")


\* C17: a _write_point call whose write succeeds and whose timestamp is the
\* one last_seen holds for the city returns a truthy value and leaves the
\* entry at that timestamp.
C17_RedeliveryTruthy ==
  (/\ lastCall.t = "call"
   /\ lastCall.written
   /\ LastSeenGet(lastCall.before, lastCall.city) = lastCall.timestamp) =>
    /\ Truthy(lastCall.ret)
    /\ LastSeenGet(last_seen_timestamps, lastCall.city) = lastCall.timestamp

\* C18: when a cycle is over, by its end, by the bucket failing or by an
\* exception, the InfluxDB client it opened is closed.
C18_SessionClosed ==
  pc \in {"sleep", "crashed"} => session = "closed"

\* C19: the transform and record phases run only when every fetch_data call
\* of the cycle has returned or raised, and a cycle calls fetch_data at most
\* once per city, exactly once by the time the fetch phase is over.
C19_FetchesJoinFirst ==
  /\ \A c \in Cities : fetched[c] <= 1
  /\ \A c \in Cities : fetched[c] = 1 <=> results[c] # Pending
  /\ (\/ pc \in {"transform", "record", "crashed"}
      \/ \E c \in Cities : normalized[c] # NotCalled \/ built[c] # NotCalled
      \/ \E n \in CityNames : attempts[n] > 0
      \/ done > 0
      \/ lastCall # NotCalled) =>
       \A c \in Cities : fetched[c] = 1

\* The record phase has written a point, every city fetched once.
C19_Witness ==
  /\ pc = "record"
  /\ wrote >= 1
  /\ \A c \in Cities : fetched[c] = 1

\* C20: a step changes last_seen_timestamps only if it is a _write_point
\* call of the record phase whose write succeeded and whose timestamp is not
\* the one stored for the city, and it changes that city's entry only.
C20_OnlyNewWritesChange ==
  [][ last_seen_timestamps' # last_seen_timestamps =>
        /\ pc = "record"
        /\ lastCall'.t = "call"
        /\ lastCall'.written
        /\ lastCall'.before = last_seen_timestamps
        /\ LastSeenGet(last_seen_timestamps, lastCall'.city) # lastCall'.timestamp
        /\ \A n \in (DOMAIN last_seen_timestamps \cup DOMAIN last_seen_timestamps')
                      \ {lastCall'.city} :
             /\ n \in DOMAIN last_seen_timestamps
             /\ n \in DOMAIN last_seen_timestamps'
             /\ last_seen_timestamps'[n] = last_seen_timestamps[n] ]_vars

\* A _write_point call has changed the entry of a city while another city
\* has one.
C20_Witness ==
  /\ lastCall.t = "call"
  /\ last_seen_timestamps # lastCall.before
  /\ lastCall.city \in DOMAIN lastCall.before
  /\ \E n \in DOMAIN lastCall.before : n # lastCall.city


\* C21: a cycle starts 30 seconds after the cycle before it started, the
\* cycle before having taken less than 30 seconds.
C21_StartsThirtyApart ==
  [][ (pc = "sleep" /\ (StartCycle \/ BucketFailed)) =>
        total_duration + SLEEP_SECONDS = 30 ]_vars


\* The area name that a report carries.
AreaNameOf(body) == body.kv["nearest_area"].items[1].kv["areaName"].items[1].kv["value"].s

\* The observation time that a report carries, None if it carries none.
ObsTimeOf(body) ==
  LET condition == body.kv["current_condition"].items[1] IN
  IF condition.t = "dict" /\ "localObsDateTime" \in DOMAIN condition.kv
  THEN condition.kv["localObsDateTime"]
  ELSE None

\* C22: whatever the order in which the fetch_data calls end, the report
\* kept for a city is the one fetched for it; its observation time is read
\* in that city's zone; the point built from it carries that city's name
\* and country; and _write_point compares its timestamp with that city's
\* entry of last_seen_timestamps.
C22_ResultsStayWithTheirCity ==
  /\ \A c \in Cities :
       LET info == CITY_DICTS[c] IN
       /\ (Truthy(results[c]) /\ HasAreaName(results[c])) =>
            AreaNameOf(results[c]) = info.city
       /\ (wttr = "Wttr" /\ normalized[c] # NotCalled) =>
            \A k \in KnownInstants :
              (ObsTimeOf(results[c]) = JStr(k[1]) /\ info.tz = k[2]) =>
                normalized[c] = JStr(k[3])
       /\ (built[c].t = "tuple" /\ built[c].point # None) =>
            /\ built[c].city = info.city
            /\ built[c].point.city = info.city
            /\ built[c].point.country = info.country
            /\ \E i \in 1..Len(points_to_write) :
                 /\ points_to_write[i].city = info.city
                 /\ points_to_write[i].point = built[c].point
                 /\ points_to_write[i].timestamp = built[c].timestamp
  /\ Len(points_to_write) =
       Cardinality({c \in Cities : built[c].t = "tuple" /\ built[c].point # None})
  /\ lastCall.t = "call" =>
       /\ \E i \in 1..Len(points_to_write) :
            /\ points_to_write[i].city = lastCall.city
            /\ points_to_write[i].timestamp = lastCall.timestamp
       /\ Truthy(lastCall.ret) <=>
            (lastCall.written
               /\ LastSeenGet(lastCall.before, lastCall.city) # lastCall.timestamp)
       /\ Truthy(lastCall.ret) =>
            /\ lastCall.ret = JStr(lastCall.city)
            /\ LastSeenGet(last_seen_timestamps, lastCall.city) = lastCall.timestamp

\* The fetch for the second city ended first, both cities' reports named
\* their city, both points were built and the first city's was recorded.
C22_Witness ==
  /\ completed = <<2, 1>>
  /\ \A c \in Cities : Truthy(results[c]) /\ HasAreaName(results[c])
  /\ Len(points_to_write) = 2
  /\ lastCall.t = "call"
  /\ lastCall.city = CITY_DICTS[1].city
  /\ Truthy(lastCall.ret)


\* C23: last_seen_timestamps holds, for each city that write_data has
\* written a point for, the timestamp of the latest such point, and nothing
\* for any other city.
C23_IndexIsLatestWrite ==
  /\ DOMAIN last_seen_timestamps = DOMAIN last_written
  /\ \A n \in DOMAIN last_seen_timestamps : last_seen_timestamps[n] = last_written[n]

\* A point has been written again for a city that had an entry for another
\* timestamp before, while another city has had no point written.
C23_Witness ==
  /\ lastCall.t = "call"
  /\ lastCall.written
  /\ lastCall.ret = None
  /\ lastCall.prev.t = "call"
  /\ lastCall.prev.city = lastCall.city
  /\ lastCall.prev.timestamp # lastCall.timestamp
  /\ \E n \in CityNames : n \notin DOMAIN last_seen_timestamps /\ n \notin DOMAIN last_written

====
